---- MODULE Spec2Model ----
(***************************************************************************)
(* Model of TPC_daesang.py: a Streamlit dashboard over the TPC-H sample    *)
(* schema.  The script is re-executed top to bottom on every widget        *)
(* change; three functions are memoised by st.cache_data.  The warehouse   *)
(* (Snowpark) is modelled by what its relational operators compute on a    *)
(* small dataset.                                                          *)
(***************************************************************************)
EXTENDS Integers, Sequences, FiniteSets, TLC

VARIABLES
    db,                 \* the warehouse tables ORDERS, CUSTOMER, NATION, REGION
    null_repr,          \* how to_pandas() delivers SQL NULL in this build
    regions_memo,       \* st.cache_data store of get_regions()
    date_range_memo,    \* st.cache_data store of get_date_range()
    data_memo,          \* st.cache_data store of load_filtered_data()
    selected_regions,   \* value of the multiselect widget
    date_range,         \* value of the date_input widget
    data,               \* `data` of the last run (NoData when not assigned)
    rendered,           \* elements the last run put on the page
    raised,             \* the last run ended with an uncaught exception
    run_queries,        \* warehouse queries issued by the last run
    n_region_queries,   \* executions of the body of get_regions() so far
    n_date_queries,     \* executions of the body of get_date_range() so far
    first_result        \* history: full filter key -> the bundle its first call
                        \* returned, and whether it was called again

vars == <<db, null_repr, regions_memo, date_range_memo, data_memo,
          selected_regions, date_range, data, rendered, raised, run_queries,
          n_region_queries, n_date_queries, first_result>>

-----------------------------------------------------------------------------
(* Bounds of the model *)

NumNations == 11
NumOrders == 12
MaxKeys == 2

-----------------------------------------------------------------------------
(* Values *)

\* `data` before load_filtered_data has returned.
NoData == [kind |-> "NoData"]

\* A memo holds no value or one.
NotCached == {}

\* A scalar of the bundle: a number, or what the build puts in the place of
\* SQL NULL when a pandas column is read (None or NaN).
Number(v) == [kind |-> "number", value |-> v]
Null(nr) == [kind |-> nr]

RegionNames == <<"AFRICA", "AMERICA">>
NationNames == <<"ALGERIA", "ARGENTINA", "BRAZIL", "CANADA", "EGYPT", "ETHIOPIA",
                 "FRANCE", "GERMANY", "INDIA", "INDONESIA", "IRAN", "IRAQ",
                 "JAPAN", "JORDAN", "KENYA", "MOROCCO", "MOZAMBIQUE", "PERU">>
Segments == <<"AUTOMOBILE", "BUILDING">>
Priorities == <<"1-URGENT", "5-LOW">>

\* Dates are <<year, month, day>>.
Calendar == <<(<<1995, 11, 30>>), (<<1995, 12, 1>>), (<<1995, 12, 31>>), (<<1996, 1, 15>>)>>

DateLE(a, b) ==
    \/ a[1] < b[1]
    \/ a[1] = b[1] /\ a[2] < b[2]
    \/ a[1] = b[1] /\ a[2] = b[2] /\ a[3] <= b[3]

Range(f) == {f[i] : i \in DOMAIN f}

Min(a, b) == IF a <= b THEN a ELSE b

\* str(datetime.date): ISO text, the year followed by zero-padded month and day
\* (digit by digit).
DateStr(d) == <<d[1], d[2] \div 10, d[2] % 10, d[3] \div 10, d[3] % 10>>

\* The warehouse's implicit cast of an ISO date literal to DATE.
ToDate(s) == <<s[1], s[2] * 10 + s[3], s[4] * 10 + s[5]>>

\* DATE_TRUNC('MONTH', d): the first day of d's month.
DateTruncMonth(d) == <<d[1], d[2], 1>>

-----------------------------------------------------------------------------
(* The sample dataset: keys are unique and every foreign key resolves, as in *)
(* TPC-H.  Order k belongs to customer ((k-1) mod NumNations)+1; one         *)
(* customer per nation; nations are dealt round-robin to the regions.        *)

REGION == {[R_REGIONKEY |-> k, R_NAME |-> RegionNames[k]] : k \in DOMAIN RegionNames}

NATION ==
    {[N_NATIONKEY |-> k, N_NAME |-> NationNames[k],
      N_REGIONKEY |-> ((k - 1) % Len(RegionNames)) + 1] : k \in 1..NumNations}

CUSTOMER ==
    {[C_CUSTKEY |-> k, C_NATIONKEY |-> k, C_MKTSEGMENT |-> Segments[(k % 2) + 1]]
        : k \in 1..NumNations}

\* n orders; order t (if any) is priced like order t+1, which ties two groups.
ORDERS(n, t) ==
    {[O_ORDERKEY |-> k,
      O_CUSTKEY |-> ((k - 1) % NumNations) + 1,
      O_ORDERDATE |-> Calendar[((k - 1) % Len(Calendar)) + 1],
      O_TOTALPRICE |-> IF k = t THEN k + 1 ELSE k,
      O_ORDERPRIORITY |-> Priorities[(k % 2) + 1]] : k \in 1..n}

Database(n, t) ==
    [ORDERS |-> ORDERS(n, t), CUSTOMER |-> CUSTOMER, NATION |-> NATION, REGION |-> REGION]

Datasets == {Database(n, t) : n \in 1..NumOrders, t \in 0..NumOrders}

NullReprs == {"None", "NaN"}

-----------------------------------------------------------------------------
(* Relational operators of the warehouse *)

\* left.join(right, left[lcol] == right[rcol]): inner join, every pair of rows
\* that agree on the two columns.
Join(L, R, lcol, rcol) == UNION {{l @@ r : r \in {x \in R : l[lcol] = x[rcol]}} : l \in L}

RECURSIVE SumPrice(_)
\* SUM(O_TOTALPRICE) over a non-empty set of rows.
SumPrice(S) ==
    IF S = {} THEN 0
    ELSE LET x == CHOOSE y \in S : TRUE
         IN  x.O_TOTALPRICE + SumPrice(S \ {x})

\* SUM / AVG over no rows is SQL NULL, which to_pandas() delivers as nr.
SqlSum(S, nr) == IF S = {} THEN Null(nr) ELSE Number(SumPrice(S))
SqlAvg(S, nr) ==
    IF S = {} THEN Null(nr) ELSE Number([num |-> SumPrice(S), den |-> Cardinality(S)])

RECURSIVE OrderBy(_, _)
\* ORDER BY ascending on rank: every sequence of the rows of S in which no row
\* precedes one of strictly smaller rank (rows that tie come in any order).
OrderBy(S, rank) ==
    IF S = {} THEN {<<>>}
    ELSE UNION {{<<x>> \o t : t \in OrderBy(S \ {x}, rank)}
                  : x \in {y \in S : \A z \in S : rank[y] <= rank[z]}}

\* DataFrame.limit(n)
Limit(s, n) == SubSeq(s, 1, Min(n, Len(s)))

\* Position of a DATE in the calendar order (what ORDER BY compares).
DateRank(d) == d[1] * 372 + d[2] * 31 + d[3]

\* Position of a priority label in lexical order.
PriorityRank(p) == CHOOSE i \in DOMAIN Priorities : Priorities[i] = p

-----------------------------------------------------------------------------
(* load_filtered_data: the body of the cached function *)

TopN == 10

\* Faulty variant: the two comparisons are joined by | instead of &.
DateFilterOr(orders, start_date, end_date) ==
    {o \in orders : \/ DateLE(ToDate(start_date), o.O_ORDERDATE)
                    \/ DateLE(o.O_ORDERDATE, ToDate(end_date))}

\* Faulty variant: the end of the interval is exclusive.
DateFilterOpenEnd(orders, start_date, end_date) ==
    {o \in orders : /\ DateLE(ToDate(start_date), o.O_ORDERDATE)
                    /\ DateLE(o.O_ORDERDATE, ToDate(end_date))
                    /\ o.O_ORDERDATE # ToDate(end_date)}

\* .filter((O_ORDERDATE >= start_date) & (O_ORDERDATE <= end_date))
DateFilter(orders, start_date, end_date) ==
    {o \in orders : /\ DateLE(ToDate(start_date), o.O_ORDERDATE)
                    /\ DateLE(o.O_ORDERDATE, ToDate(end_date))}

\* .filter(R_NAME.isin(_selected_regions))
RegionFilter(rows, regs) == {x \in rows : x.R_NAME \in Range(regs)}

base_df(d, regs, start_date, end_date) ==
    LET by_date == DateFilter(d.ORDERS, start_date, end_date)
        with_customer == Join(by_date, d.CUSTOMER, "O_CUSTKEY", "C_CUSTKEY")
        with_nation == Join(with_customer, d.NATION, "C_NATIONKEY", "N_NATIONKEY")
        with_region == Join(with_nation, d.REGION, "N_REGIONKEY", "R_REGIONKEY")
    IN  RegionFilter(with_region, regs)

\* The rows of the monthly table (one per YEAR_MONTH group).
MonthlyRows(base) ==
    {[YEAR_MONTH |-> m,
      REVENUE |-> SumPrice({x \in base : DateTruncMonth(x.O_ORDERDATE) = m})]
        : m \in {DateTruncMonth(x.O_ORDERDATE) : x \in base}}

\* Faulty variant: the ORDER BY is missing.
monthly_revenue_unordered(base) ==
    LET rows == MonthlyRows(base)
    IN  OrderBy(rows, [r \in rows |-> 0])

\* .order_by("YEAR_MONTH")
monthly_revenue(base) ==
    LET rows == MonthlyRows(base)
    IN  OrderBy(rows, [r \in rows |-> DateRank(r.YEAR_MONTH)])

\* Faulty variant: ORDERS counts the distinct customers of the group.
region_revenue_customers(base) ==
    {[R_NAME |-> g,
      REVENUE |-> SumPrice({x \in base : x.R_NAME = g}),
      ORDERS |-> Cardinality({x.O_CUSTKEY : x \in {y \in base : y.R_NAME = g}})]
        : g \in {x.R_NAME : x \in base}}

\* group_by("R_NAME"): no ORDER BY, the table is a set of rows.
region_revenue(base) ==
    {[R_NAME |-> g,
      REVENUE |-> SumPrice({x \in base : x.R_NAME = g}),
      ORDERS |-> Cardinality({x \in base : x.R_NAME = g})]
        : g \in {x.R_NAME : x \in base}}

segment_analysis(base) ==
    {[C_MKTSEGMENT |-> g,
      REVENUE |-> SumPrice({x \in base : x.C_MKTSEGMENT = g}),
      ORDERS |-> Cardinality({x \in base : x.C_MKTSEGMENT = g}),
      AVG_ORDER |-> [num |-> SumPrice({x \in base : x.C_MKTSEGMENT = g}),
                     den |-> Cardinality({x \in base : x.C_MKTSEGMENT = g})]]
        : g \in {x.C_MKTSEGMENT : x \in base}}

PriorityRows(base) ==
    {[O_ORDERPRIORITY |-> g,
      ORDERS |-> Cardinality({x \in base : x.O_ORDERPRIORITY = g}),
      REVENUE |-> SumPrice({x \in base : x.O_ORDERPRIORITY = g})]
        : g \in {x.O_ORDERPRIORITY : x \in base}}

\* .order_by("O_ORDERPRIORITY")
priority_analysis(base) ==
    LET rows == PriorityRows(base)
    IN  OrderBy(rows, [r \in rows |-> PriorityRank(r.O_ORDERPRIORITY)])

NationRows(base) ==
    {[N_NAME |-> g[1], R_NAME |-> g[2],
      REVENUE |-> SumPrice({x \in base : x.N_NAME = g[1] /\ x.R_NAME = g[2]})]
        : g \in {<<x.N_NAME, x.R_NAME>> : x \in base}}

\* .order_by(REVENUE.desc())
NationOrder(rows) == OrderBy(rows, [r \in rows |-> 0 - r.REVENUE])

\* Faulty variant: the LIMIT is missing.
nation_revenue_unlimited(base) == NationOrder(NationRows(base))

\* .limit(10)
nation_revenue(base) == {Limit(s, TopN) : s \in NationOrder(NationRows(base))}

\* Every bundle the function body can return (the warehouse picks the order of
\* rows that tie in an ORDER BY).
load_filtered_data(d, nr, regs, start_date, end_date) ==
    LET base == base_df(d, regs, start_date, end_date)
    IN  {[total_revenue |-> SqlSum(base, nr),
          total_orders |-> Number(Cardinality(base)),
          avg_order_value |-> SqlAvg(base, nr),
          monthly_revenue |-> mr,
          region_revenue |-> region_revenue(base),
          segment_analysis |-> segment_analysis(base),
          priority_analysis |-> pa,
          nation_revenue |-> top]
            : mr \in monthly_revenue(base),
              pa \in priority_analysis(base),
              top \in nation_revenue(base)}

\* Warehouse queries one execution of the body issues (one per to_pandas()
\* or count()).
PipelineQueries == 8

-----------------------------------------------------------------------------
(* The parameter resolver *)

\* Body of get_regions(): R_NAME of every REGION row, in the order the
\* warehouse returns them (no ORDER BY).
get_regions(d) ==
    LET names == {r.R_NAME : r \in d.REGION}
    IN  OrderBy(names, [n \in names |-> 0])

\* Body of get_date_range(): (MIN(O_ORDERDATE), MAX(O_ORDERDATE)).
get_date_range(d) ==
    LET dates == {o.O_ORDERDATE : o \in d.ORDERS}
    IN  <<CHOOSE x \in dates : \A y \in dates : DateLE(x, y),
          CHOOSE x \in dates : \A y \in dates : DateLE(y, x)>>

\* Faulty variant: the memo is never consulted.
MemoHitNever(memo) == FALSE

\* @st.cache_data on a function without arguments: the stored value is
\* returned when there is one.
MemoHit(memo) == memo # NotCached

\* Faulty variant: the store of load_filtered_data is never consulted.
CacheHitNever(key, memo) == FALSE

\* @st.cache_data on load_filtered_data: a stored entry under the key of the
\* call is returned instead of running the body.
CacheHit(key, memo) == key \in DOMAIN memo

\* @st.cache_data on load_filtered_data: the entry is looked up by the hash of
\* the arguments, and an argument whose name starts with an underscore
\* (_selected_regions) is left out of the hash.
CacheKey(_selected_regions, start_date, end_date) == <<start_date, end_date>>

\* The arguments of one call, as the caller passes them.
FullKey(regs, start_date, end_date) == <<regs, start_date, end_date>>

-----------------------------------------------------------------------------
(* The widgets *)

\* st.sidebar.multiselect: the chosen options, in the order they were chosen.
Selections(options) ==
    UNION {OrderBy(S, [n \in S |-> 0]) : S \in SUBSET Range(options)}

\* st.sidebar.date_input with a range value: no date, one date (the range is
\* being picked) or a start and an end, all within [min_value, max_value].
DateRanges(mm) ==
    LET days == {d \in Range(Calendar) : DateLE(mm[1], d) /\ DateLE(d, mm[2])}
    IN  {<<>>} \cup {<<d>> : d \in days}
               \cup {p \in {<<a, b>> : a \in days, b \in days} : DateLE(p[1], p[2])}

-----------------------------------------------------------------------------
(* The presentation pass *)

\* format(value, ",.0f") / format(value, ",.2f") raise TypeError on None.
FormatRaises(value) == value.kind = "None"

Title == {"title"}
MetricsHeader == {"metrics_header"}
RevenueTile == {"metric_total_revenue"}
OtherTiles == {"metric_total_orders", "metric_avg_order_value"}
Tiles == RevenueTile \cup OtherTiles
Charts == {"monthly_chart", "region_chart", "segment_chart", "priority_chart",
           "nation_chart"}
RawTables == {"region_table", "segment_table"}
Warning == {"warning"}
Footer == {"sidebar_footer"}

\* Lines 124-204: what reaches the page, and whether the pass raised.
Present(bundle) ==
    IF FormatRaises(bundle.total_revenue)
    THEN [rendered |-> Title \cup MetricsHeader, raised |-> TRUE]
    ELSE IF FormatRaises(bundle.avg_order_value)
    THEN [rendered |-> Title \cup MetricsHeader \cup RevenueTile
                        \cup {"metric_total_orders"},
          raised |-> TRUE]
    ELSE [rendered |-> Title \cup MetricsHeader \cup Tiles \cup Charts
                        \cup RawTables \cup Footer,
          raised |-> FALSE]

\* Faulty variant: the guard forgets the region set.
SelectionCompleteDatesOnly(sel, dr) == Len(dr) = 2

\* Line 121: the guard of the pipeline call.
SelectionComplete(sel, dr) == Len(dr) = 2 /\ sel # <<>>

-----------------------------------------------------------------------------
(* One execution of the script, with the widgets holding sel and dr.  rl and *)
(* mm are what get_regions() and get_date_range() return in this run.        *)

Script(rl, mm, sel, dr) ==
    LET resolver_queries == (IF MemoHit(regions_memo) THEN 0 ELSE 1)
                            + (IF MemoHit(date_range_memo) THEN 0 ELSE 1)
    IN
    /\ regions_memo' = {rl}
    /\ date_range_memo' = {mm}
    /\ n_region_queries' = n_region_queries + (IF MemoHit(regions_memo) THEN 0 ELSE 1)
    /\ n_date_queries' = n_date_queries + (IF MemoHit(date_range_memo) THEN 0 ELSE 1)
    /\ selected_regions' = sel
    /\ date_range' = dr
    /\ IF SelectionComplete(sel, dr)
       THEN LET start_date == DateStr(dr[1])
                end_date == DateStr(dr[2])
                key == CacheKey(sel, start_date, end_date)
                full == FullKey(sel, start_date, end_date)
                hit == CacheHit(key, data_memo)
            IN  /\ full \in DOMAIN first_result
                   \/ Cardinality(DOMAIN first_result) < MaxKeys
                /\ data' \in IF hit THEN {data_memo[key]}
                             ELSE load_filtered_data(db, null_repr, sel,
                                                     start_date, end_date)
                /\ data_memo' = IF hit THEN data_memo ELSE (key :> data') @@ data_memo
                /\ first_result' =
                      IF full \in DOMAIN first_result
                      THEN [first_result EXCEPT ![full].again = TRUE]
                      ELSE (full :> [result |-> data', again |-> FALSE]) @@ first_result
                /\ run_queries' = resolver_queries + (IF hit THEN 0 ELSE PipelineQueries)
                /\ rendered' = Present(data').rendered
                /\ raised' = Present(data').raised
       ELSE /\ data' = NoData
            /\ rendered' = Title \cup Warning \cup Footer
            /\ raised' = FALSE
            /\ run_queries' = resolver_queries
            /\ UNCHANGED <<data_memo, first_result>>
    /\ UNCHANGED <<db, null_repr>>

Started == rendered # {}

ResolveRegions == IF MemoHit(regions_memo) THEN regions_memo ELSE get_regions(db)
ResolveDates == IF MemoHit(date_range_memo) THEN date_range_memo ELSE {get_date_range(db)}

\* The first run of a session: the widgets hold their defaults (all regions,
\* the whole date range).
Open ==
    /\ ~Started
    /\ \E rl \in ResolveRegions : \E mm \in ResolveDates : Script(rl, mm, rl, mm)

\* The user changes the region multiselect; the script runs again.
ChangeRegions ==
    /\ Started
    /\ \E rl \in ResolveRegions : \E mm \in ResolveDates :
          \E sel \in Selections(rl) \ {selected_regions} :
             Script(rl, mm, sel, date_range)

\* The user changes the date input; the script runs again.
ChangeDates ==
    /\ Started
    /\ \E rl \in ResolveRegions : \E mm \in ResolveDates :
          \E dr \in DateRanges(mm) \ {date_range} :
             Script(rl, mm, selected_regions, dr)

\* The user reruns the script without touching a widget.
Rerun ==
    /\ Started
    /\ \E rl \in ResolveRegions : \E mm \in ResolveDates :
          Script(rl, mm, selected_regions, date_range)

\* The sessions run on two small datasets (two orders, priced apart or alike).
SessionDatasets == {Database(2, t) : t \in {0, 1}}

Init ==
    /\ db \in SessionDatasets
    /\ null_repr \in NullReprs
    /\ regions_memo = NotCached
    /\ date_range_memo = NotCached
    /\ data_memo = <<>>
    /\ selected_regions = <<>>
    /\ date_range = <<>>
    /\ data = NoData
    /\ rendered = {}
    /\ raised = FALSE
    /\ run_queries = 0
    /\ n_region_queries = 0
    /\ n_date_queries = 0
    /\ first_result = <<>>

Next == Open \/ ChangeRegions \/ ChangeDates \/ Rerun

Spec == Init /\ [][Next]_vars

-----------------------------------------------------------------------------
(* The pipeline as a function: the body of load_filtered_data applied to any *)
(* non-empty region tuple and any pair of dates, inverted pairs included.    *)

PipeRegions == UNION {OrderBy(S, [n \in S |-> 0]) : S \in (SUBSET Range(RegionNames)) \ {{}}}

PipeDates == {<<a, b>> : a \in Range(Calendar), b \in Range(Calendar)}

PipeInit ==
    /\ db \in Datasets
    /\ null_repr \in NullReprs
    /\ selected_regions \in {s \in PipeRegions : Range(s) \subseteq {r.R_NAME : r \in db.REGION}}
    /\ date_range \in PipeDates
    /\ data = NoData
    /\ regions_memo = NotCached
    /\ date_range_memo = NotCached
    /\ data_memo = <<>>
    /\ rendered = {}
    /\ raised = FALSE
    /\ run_queries = 0
    /\ n_region_queries = 0
    /\ n_date_queries = 0
    /\ first_result = <<>>

PipeApply ==
    /\ data = NoData
    /\ data' \in load_filtered_data(db, null_repr, selected_regions,
                                    DateStr(date_range[1]), DateStr(date_range[2]))
    /\ run_queries' = PipelineQueries
    /\ UNCHANGED <<db, null_repr, regions_memo, date_range_memo, data_memo,
                   selected_regions, date_range, rendered, raised,
                   n_region_queries, n_date_queries, first_result>>

PipeNext == PipeApply

PipeSpec == PipeInit /\ [][PipeNext]_vars

-----------------------------------------------------------------------------
(* Vocabulary of the properties, stated on the tables and the widget values, *)
(* not on the pipeline's intermediate results.                               *)

\* The pipeline has returned in PipeSpec / the last run called it in Spec.
Called == data # NoData

\* The region name an order resolves to through customer and nation.
RegionNameOf(o) ==
    LET c == CHOOSE x \in db.CUSTOMER : x.C_CUSTKEY = o.O_CUSTKEY
        n == CHOOSE x \in db.NATION : x.N_NATIONKEY = c.C_NATIONKEY
        r == CHOOSE x \in db.REGION : x.R_REGIONKEY = n.N_REGIONKEY
    IN  r.R_NAME

NationNameOf(o) ==
    LET c == CHOOSE x \in db.CUSTOMER : x.C_CUSTKEY = o.O_CUSTKEY
        n == CHOOSE x \in db.NATION : x.N_NATIONKEY = c.C_NATIONKEY
    IN  n.N_NAME

\* Orders dated within [start, end] whose region is selected.
Qualifies(o, regs, dr) ==
    /\ DateLE(dr[1], o.O_ORDERDATE)
    /\ DateLE(o.O_ORDERDATE, dr[2])
    /\ \E i \in DOMAIN regs : regs[i] = RegionNameOf(o)

Qualifying(regs, dr) == {o \in db.ORDERS : Qualifies(o, regs, dr)}

\* The base relation of the current arguments.
CurrentBase ==
    base_df(db, selected_regions, DateStr(date_range[1]), DateStr(date_range[2]))

RECURSIVE SumField(_, _)
\* Sum of a numeric column over the rows of a table held as a set.
SumField(rows, col) ==
    IF rows = {} THEN 0
    ELSE LET x == CHOOSE y \in rows : TRUE
         IN  x[col] + SumField(rows \ {x}, col)

MonthOf(d) == <<d[1], d[2]>>

MonthBefore(a, b) == a[1] < b[1] \/ (a[1] = b[1] /\ a[2] < b[2])

-----------------------------------------------------------------------------
\* C10: an order is in the base relation iff its date lies in [start, end] and
\* the region of the nation of its customer is selected; each such order
\* appears in the base relation exactly once, and total_orders is the number
\* of such orders.
C10_BaseRelation ==
    Called =>
        /\ \A o \in db.ORDERS :
              Cardinality({x \in CurrentBase : x.O_ORDERKEY = o.O_ORDERKEY})
                 = (IF Qualifies(o, selected_regions, date_range) THEN 1 ELSE 0)
        /\ data.total_orders = Number(Cardinality(Qualifying(selected_regions, date_range)))

\* An order dated on the end of the interval qualifies while another order is
\* left out for its region and a third for its date.
C10_Witness ==
    /\ Called
    /\ \E o \in Qualifying(selected_regions, date_range) : o.O_ORDERDATE = date_range[2]
    /\ \E o \in Qualifying(selected_regions, date_range) : o.O_ORDERDATE = date_range[1]
    /\ \E o \in db.ORDERS : /\ DateLE(date_range[1], o.O_ORDERDATE)
                            /\ DateLE(o.O_ORDERDATE, date_range[2])
                            /\ ~Qualifies(o, selected_regions, date_range)
    /\ \E o \in db.ORDERS : ~DateLE(o.O_ORDERDATE, date_range[2])

\* C8: the monthly table has exactly one row per calendar month that holds an
\* order of the base relation, each row's REVENUE is the sum of the total price
\* of that month's orders, and the rows are in ascending month order with no
\* month twice.
C8_MonthlyRevenue ==
    Called =>
        LET mr == data.monthly_revenue
            q == Qualifying(selected_regions, date_range)
        IN  /\ {MonthOf(mr[i].YEAR_MONTH) : i \in DOMAIN mr}
                  = {MonthOf(o.O_ORDERDATE) : o \in q}
            /\ \A i \in DOMAIN mr :
                  mr[i].REVENUE
                     = SumField({o \in q : MonthOf(o.O_ORDERDATE) = MonthOf(mr[i].YEAR_MONTH)},
                                "O_TOTALPRICE")
            /\ \A i, j \in DOMAIN mr :
                  i < j => MonthBefore(MonthOf(mr[i].YEAR_MONTH), MonthOf(mr[j].YEAR_MONTH))

\* Three months across a year boundary, one of them holding two orders, and a
\* month of the range's years left out because it holds no order of the base.
C8_Witness ==
    /\ Called
    /\ Len(data.monthly_revenue) = 3
    /\ data.monthly_revenue[1].YEAR_MONTH[1] < data.monthly_revenue[3].YEAR_MONTH[1]
    /\ \E i \in DOMAIN data.monthly_revenue :
          Cardinality({o \in Qualifying(selected_regions, date_range) :
                         MonthOf(o.O_ORDERDATE) = MonthOf(data.monthly_revenue[i].YEAR_MONTH)}) >= 2

\* The (nation, region) groups of the qualifying orders and their revenue.
NationGroups(q) == {<<NationNameOf(o), RegionNameOf(o)>> : o \in q}

GroupRevenue(q, g) ==
    SumField({o \in q : <<NationNameOf(o), RegionNameOf(o)>> = g}, "O_TOTALPRICE")

\* The rows of the top-nation table are groups of the base relation with their
\* summed revenue, no group twice, as many as min(10, number of groups), and
\* no group left out has a greater revenue than one included.
TopNationRows(nr, q) ==
    /\ Len(nr) <= 10
    /\ Len(nr) = Min(10, Cardinality(NationGroups(q)))
    /\ \A i \in DOMAIN nr :
          /\ <<nr[i].N_NAME, nr[i].R_NAME>> \in NationGroups(q)
          /\ nr[i].REVENUE = GroupRevenue(q, <<nr[i].N_NAME, nr[i].R_NAME>>)
    /\ \A i, j \in DOMAIN nr : i # j => nr[i].N_NAME # nr[j].N_NAME
    /\ \A g \in NationGroups(q) :
          (\A i \in DOMAIN nr : <<nr[i].N_NAME, nr[i].R_NAME>> # g)
             => \A i \in DOMAIN nr : GroupRevenue(q, g) <= nr[i].REVENUE

\* C7 as stated: at most 10 rows, exactly min(10, groups), sorted STRICTLY
\* descending by summed revenue, and no group left out has a greater revenue
\* than a group included.
C7_TopNationsStrict ==
    Called =>
        LET nr == data.nation_revenue
        IN  /\ TopNationRows(nr, Qualifying(selected_regions, date_range))
            /\ \A i, j \in DOMAIN nr : i < j => nr[i].REVENUE > nr[j].REVENUE

\* C7 amended: the same, the rows sorted in non-increasing order of summed
\* revenue (two groups of equal revenue come in either order).
C7_TopNations ==
    Called =>
        LET nr == data.nation_revenue
        IN  /\ TopNationRows(nr, Qualifying(selected_regions, date_range))
            /\ \A i, j \in DOMAIN nr : i < j => nr[i].REVENUE >= nr[j].REVENUE

\* More than 10 groups, so the limit cuts, and two of the rows kept tie.
C7_Witness ==
    /\ Called
    /\ Cardinality(NationGroups(Qualifying(selected_regions, date_range))) > 10
    /\ Len(data.nation_revenue) = 10
    /\ \E i, j \in DOMAIN data.nation_revenue :
          i < j /\ data.nation_revenue[i].REVENUE = data.nation_revenue[j].REVENUE

\* C6 as stated: for start <= end, ORDERS summed over the rows of
\* region_revenue equals total_orders, and REVENUE summed over them equals
\* total_revenue.
C6_RegionPartitionAlways ==
    (Called /\ DateLE(date_range[1], date_range[2])) =>
        /\ Number(SumField(data.region_revenue, "ORDERS")) = data.total_orders
        /\ Number(SumField(data.region_revenue, "REVENUE")) = data.total_revenue

\* C6 amended: the ORDERS sum equals total_orders; the REVENUE sum equals
\* total_revenue when an order matches, and when none does region_revenue has
\* no rows and total_revenue is null.
C6_RegionPartition ==
    (Called /\ DateLE(date_range[1], date_range[2])) =>
        /\ Number(SumField(data.region_revenue, "ORDERS")) = data.total_orders
        /\ IF Qualifying(selected_regions, date_range) # {}
           THEN Number(SumField(data.region_revenue, "REVENUE")) = data.total_revenue
           ELSE data.region_revenue = {} /\ data.total_revenue = Null(null_repr)

\* Two regions with orders, one of them with two orders of one customer.
C6_Witness ==
    /\ Called
    /\ DateLE(date_range[1], date_range[2])
    /\ Cardinality(data.region_revenue) >= 2
    /\ \E r \in data.region_revenue : r.ORDERS >= 3
    /\ \E o1, o2 \in Qualifying(selected_regions, date_range) :
          o1 # o2 /\ o1.O_CUSTKEY = o2.O_CUSTKEY

Inverted == ~DateLE(date_range[1], date_range[2])

IsNull(v) == v.kind \in NullReprs

\* The pipeline returns for the current arguments (no error path is taken).
PipeReturns ==
    load_filtered_data(db, null_repr, selected_regions,
                       DateStr(date_range[1]), DateStr(date_range[2])) # {}

\* C5 as stated: with end before start the base relation is empty, every one
\* of the eight results is a table of zero rows or a null scalar, and no error
\* is raised.
C5_InvertedAllEmptyOrNull ==
    Inverted =>
        /\ PipeReturns
        /\ Called =>
              /\ CurrentBase = {}
              /\ IsNull(data.total_revenue)
              /\ IsNull(data.total_orders)
              /\ IsNull(data.avg_order_value)
              /\ data.monthly_revenue = <<>>
              /\ data.region_revenue = {}
              /\ data.segment_analysis = {}
              /\ data.priority_analysis = <<>>
              /\ data.nation_revenue = <<>>

\* C5 amended: with end before start the base relation is empty, total_revenue
\* and avg_order_value are null, total_orders is 0, the five tables have zero
\* rows, and no error is raised.
C5_Inverted ==
    Inverted =>
        /\ PipeReturns
        /\ Called =>
              /\ CurrentBase = {}
              /\ IsNull(data.total_revenue)
              /\ data.total_orders = Number(0)
              /\ IsNull(data.avg_order_value)
              /\ data.monthly_revenue = <<>>
              /\ data.region_revenue = {}
              /\ data.segment_analysis = {}
              /\ data.priority_analysis = <<>>
              /\ data.nation_revenue = <<>>

\* The pipeline has returned for an inverted range that, swapped, would match
\* orders of the selected regions.
C5_Witness ==
    /\ Called
    /\ Inverted
    /\ Qualifying(selected_regions, <<date_range[2], date_range[1]>>) # {}

-----------------------------------------------------------------------------
(* Properties of a session *)

\* The widgets hold a complete selection.
Complete == Len(date_range) = 2 /\ selected_regions # <<>>

\* The full filter key of the current selection.
CurrentKey == <<selected_regions, DateStr(date_range[1]), DateStr(date_range[2])>>

\* The bundles the pipeline computes for the current selection.
CurrentBundles ==
    load_filtered_data(db, null_repr, selected_regions,
                       DateStr(date_range[1]), DateStr(date_range[2]))

\* C1: whenever the selection is complete, the bundle handed to the
\* presentation layer is the bundle the pipeline computes for the current
\* (regions, start, end); a change of the region set alone never returns the
\* bundle of another region set.
C1_BundleOfCurrentKey == (Started /\ Complete) => data \in CurrentBundles

\* C2: a call of the pipeline with a full key that was already called in the
\* session issues no warehouse query and returns the bundle the first call
\* with that key returned.
C2_NoRecompute ==
    [][LET complete == Len(date_range') = 2 /\ selected_regions' # <<>>
           full == <<selected_regions', DateStr(date_range'[1]), DateStr(date_range'[2])>>
       IN  (complete /\ full \in DOMAIN first_result)
              => /\ run_queries' = 0
                 /\ data' = first_result[full].result]_vars

\* A key was called a second time after another key had been called.
C2_Witness ==
    /\ Started
    /\ Complete
    /\ Cardinality(DOMAIN first_result) >= 2
    /\ CurrentKey \in DOMAIN first_result
    /\ first_result[CurrentKey].again
    /\ run_queries = 0
    /\ data = first_result[CurrentKey].result

\* C3: with an incomplete selection the run issues no query, renders no metric
\* tile and no chart and shows the prompt; the pipeline is invoked in a run iff
\* the date input holds two dates and the region set is not empty.
C3_IncompleteSelection ==
    Started =>
        /\ Complete <=> Called
        /\ ~Complete => /\ run_queries = 0
                        /\ rendered \cap (Tiles \cup Charts) = {}
                        /\ Warning \subseteq rendered

\* A run with two dates and no region, and the prompt on the page.
C3_Witness ==
    /\ Started
    /\ Len(date_range) = 2
    /\ selected_regions = <<>>
    /\ Warning \subseteq rendered

C9_ResolverOnce ==
    /\ [](n_region_queries <= 1 /\ n_date_queries <= 1)
    /\ [][Started => (regions_memo' = regions_memo /\ date_range_memo' = date_range_memo)]_vars

\* A later run that used the resolved values and issued no query.
C9_Witness ==
    /\ Started
    /\ n_region_queries = 1
    /\ n_date_queries = 1
    /\ run_queries = 0
    /\ Range(selected_regions) \subseteq UNION {Range(rl) : rl \in regions_memo}
    /\ selected_regions # <<>>

====
